---- MODULE Spec2Model ----
(***************************************************************************)
(* Task registry and competitor-search orchestrator of girya-storekeeper.  *)
(*                                                                         *)
(* The registry (backend/tasks.py) is a process-wide dict of Task records. *)
(* A search is submitted through the router, which schedules               *)
(* CompetitorsService.search_stock as a background task and returns the    *)
(* task id; the background run registers a RUNNING record, fetches the     *)
(* warehouse stock, searches the competitor site row by row and writes the *)
(* terminal record. Status polls read the registry and evict terminal      *)
(* records.                                                                *)
(*                                                                         *)
(* The code runs on one asyncio event loop: a step of the model is the     *)
(* code between two suspension points (awaits that leave the coroutine).   *)
(***************************************************************************)
EXTENDS Integers, Sequences, FiniteSets, TLC

\* ---------------------------------------------------------------- bounds
\* Work in one behaviour: a submission counts 2, a reported stock row 1.
\* MaxWork = 5 covers two runs with one row between them and one run over
\* up to three rows.
MaxWork == 5

\* Load on the rate-limited client in one behaviour: a call made, a 429
\* received and a second passed count 1 each. MaxLoad = 5 covers two calls
\* that both get a 429 and a second of waiting, and three calls in flight.
MaxLoad == 5

\* The longest list of names given to search_products: two batches.
MaxNames == 4

\* The most rows in an uploaded file.
MaxRows == 3

\* Attempts of search in one behaviour, over all searches of a session.
MaxAttempts == 4

\* ---------------------------------------------------------------- values
Owners == {"o1", "o2"}
Groups == {"g1", "g2"}

\* Python's None for the string-typed optional fields.
None == "None"

\* TaskStatus
NOT_FOUND == "not_found"
RUNNING == "running"
COMPLETED == "completed"
FAILED == "failed"

TaskId(product_group_id) == "competitors_search_" \o product_group_id

TaskIds == {TaskId(g) : g \in Groups}

\* Ids a status poll may ask for: the task ids and the id of the synthetic
\* not-found task, which is never a key of the registry.
PollIds == TaskIds \cup {"not_found"}

\* Task(id, owner, status, result, error). result is None (<<>>) or a
\* one-element sequence holding the StockSearchResult.
Task(id, owner, status, result, error) ==
    [id |-> id, owner |-> owner, status |-> status, result |-> result, error |-> error]

\* str() of the exceptions that can end a run.
AttrErrMsg == "'NoneType' object has no attribute 'status'"
EmptyQueryMsg == "400: Search query is required"
WarehouseErrors == {"warehouse request failed"}

\* Warehouse stock rows (WarehouseStockItem): name is a required str (it may
\* be empty), stock and price are numbers.
StockItems ==
    { [name |-> "a", stock |-> 1, price |-> 10],
      [name |-> "b", stock |-> 2, price |-> 20],
      [name |-> "", stock |-> 3, price |-> 30] }

\* The stock reports of at most n rows.
StockLists(n) == UNION { [1..k -> StockItems] : k \in 0..n }

\* What the extraction client may return (CompetitorsProduct): name is a
\* required str, price and url are str or None.
LLMProducts ==
    { [name |-> "A", price |-> "100", url |-> "/a/"],
      [name |-> "A", price |-> None, url |-> "/a/"],
      [name |-> "A", price |-> "100", url |-> None],
      [name |-> "", price |-> "", url |-> ""] }

BaseUrl == "https://competitors.example"

\* urllib.parse.urljoin(base, url) for a non-empty base: an empty or None url
\* gives the base, an absolute path replaces the base's path.
UrlJoin(base, url) == IF url = None \/ url = "" THEN base ELSE base \o url

VARIABLES
    tasks,      \* TaskStore._tasks: task id -> Task
    runs,       \* the background runs of search_stock, in submission order
    resp,       \* the last response of get_task_status (<<>> before the first)
    evicted,    \* <<owner, id>>: a terminal read evicted id, and no run registered id since
    \* -- one WarehouseService and its RateLimiter
    rate_limiter,   \* remaining_requests, limit, time_interval, reset_time (<<>> is None)
    lock,           \* RateLimiter.lock: its holder (0: free) and the queue of waiters
    calls,          \* the calls of _make_request on this client
    now,            \* the clock, in seconds
    announced,      \* latest cooldown deadline announced by a response received so far
    announced429,   \* latest deadline announced by a 429 since the last request went out
    received,       \* the response the last step received and the call that got it (<<>>: none)
    \* -- one call of search_products
    names,          \* its argument
    batch_pc,       \* where it is
    batch_i,        \* i: the index before the current batch
    batch_results,  \* what the search of each name gave (Pending: nothing yet)
    results,        \* the products found
    not_found,      \* the names not found
    \* -- one call of DemandService.create_demand
    csv_rows,           \* the rows read from the uploaded file
    demand_pc,          \* where the call is
    valid_rows,
    invalid_rows,
    warehouse_products, \* what search_products returned: products, not_found
    prepared_products,
    unmatched_rows,
    not_found_rows,
    demand_result,      \* the CreateDemandResult returned (<<>>: none yet)
    \* -- one browser session (services/competitors.py) and the searches on it
    playwright,     \* _playwright: "None", "open", or "dead" (set, its transport closed)
    browser,        \* _browser
    context,        \* _context
    search_pc,      \* where the search in progress is ("idle": none in progress)
    attempts,       \* attempts of the top-level search in progress, or of the last one
    tried,          \* attempts of all searches so far
    opened,         \* pages opened so far
    closed,         \* pages closed so far
    outcome         \* how the last top-level search ended

registryVars == <<tasks, runs, resp, evicted>>

limiterVars == <<rate_limiter, lock, calls, now, announced, announced429, received>>

batchVars == <<names, batch_pc, batch_i, batch_results, results, not_found>>

demandVars ==
    <<csv_rows, demand_pc, valid_rows, invalid_rows, warehouse_products,
      prepared_products, unmatched_rows, not_found_rows, demand_result>>

browserVars ==
    <<playwright, browser, context, search_pc, attempts, tried, opened, closed, outcome>>

vars == <<registryVars, limiterVars, batchVars, demandVars, browserVars>>

\* Everything but the registry and the runs of search_stock.
outsideRegistry == <<limiterVars, batchVars, demandVars, browserVars>>

\* Everything but the limiter and the calls of _make_request.
outsideLimiter == <<registryVars, batchVars, demandVars, browserVars>>

\* Everything but the call of search_products.
outsideBatch == <<registryVars, limiterVars, demandVars, browserVars>>

\* Everything but the call of create_demand.
outsideDemand == <<registryVars, limiterVars, batchVars, browserVars>>

\* Everything but the browser session.
outsideBrowser == <<registryVars, limiterVars, batchVars, demandVars>>

\* ---------------------------------------------------------------- TaskStore
SetTask(store, task_id, task_data) ==
    [k \in (DOMAIN store) \cup {task_id} |-> IF k = task_id THEN task_data ELSE store[k]]

\* get_task without the owner comparison.
GetTaskAnyOwner(store, task_id, owner) ==
    IF task_id \in DOMAIN store THEN <<store[task_id]>> ELSE <<>>

GetTask(store, task_id, owner) ==
    IF task_id \in DOMAIN store /\ store[task_id].owner = owner
    THEN <<store[task_id]>>
    ELSE <<>>

\* remove_task that deletes nothing.
RemoveTaskNever(store, task_id, owner) == store

RemoveTask(store, task_id, owner) ==
    IF task_id \in DOMAIN store /\ store[task_id].owner = owner
    THEN [k \in (DOMAIN store) \ {task_id} |-> store[k]]
    ELSE store

\* ---------------------------------------------------------------- get_task_status
Terminal == {COMPLETED, FAILED}

\* The Task get_task_status returns.
StatusTask(store, task_id, owner) ==
    LET got == GetTask(store, task_id, owner)
    IN  IF got = <<>>
        THEN Task("not_found", owner, NOT_FOUND, <<>>, None)
        ELSE got[1]

\* get_task_status that removes whatever entry it found.
StatusStoreAnyStatus(store, task_id, owner) ==
    IF GetTask(store, task_id, owner) # <<>>
    THEN RemoveTask(store, task_id, owner)
    ELSE store

\* The registry after get_task_status.
StatusStore(store, task_id, owner) ==
    LET got == GetTask(store, task_id, owner)
    IN  IF got # <<>> /\ got[1].status \in Terminal
        THEN RemoveTask(store, task_id, owner)
        ELSE store

\* ---------------------------------------------------------------- search_stock
\* A run of search_stock: its owner and group, where it is, the warehouse
\* rows it fetched, the rows assembled so far, the message of the exception
\* it raised, and whether its owner has read a terminal state of its task id
\* since it was submitted.
Run(owner, group) ==
    [owner |-> owner, group |-> group, pc |-> "scheduled", stock |-> <<>>,
     result |-> <<>>, exc |-> None, seen |-> FALSE]

StockSearchRow(item, found_name, found_price, found_url) ==
    [name |-> item.name, stock |-> item.stock, price |-> item.price,
     found_name |-> found_name, found_price |-> found_price, found_url |-> found_url]

\* result.insert(0, row) in place of result.append(row).
PrependRow(result, row) == <<row>> \o result

AppendRow(result, row) == Append(result, row)

StockSearchResult(result) == [size |-> Len(result), rows |-> result]

\* The except branch of search_stock: the registry after the handler ran.
\* get_task gives None when the record is gone or belongs to another owner;
\* task.status then raises AttributeError and nothing is written.
FailedStore(store, task_id, owner, msg) ==
    LET got == GetTask(store, task_id, owner)
    IN  IF got = <<>>
        THEN store
        ELSE SetTask(store, task_id, [got[1] EXCEPT !.status = FAILED, !.error = msg])

\* The exception that leaves search_stock: the one caught (re-raised), or the
\* AttributeError of the handler itself.
FailedExc(store, task_id, owner, msg) ==
    IF GetTask(store, task_id, owner) = <<>> THEN AttrErrMsg ELSE msg

\* The run raised msg inside the try block.
Raise(i, msg) ==
    LET r == runs[i]
        t == TaskId(r.group)
    IN  /\ tasks' = FailedStore(tasks, t, r.owner, msg)
        /\ runs' = [runs EXCEPT ![i] = [r EXCEPT !.pc = "raised", !.result = <<>>,
                        !.exc = FailedExc(tasks, t, r.owner, msg)]]

\* The loop is over: write COMPLETED, or raise AttributeError when get_task
\* gives None.
Complete(i, stock, result) ==
    LET r == runs[i]
        t == TaskId(r.group)
        got == GetTask(tasks, t, r.owner)
    IN  IF got = <<>>
        THEN Raise(i, AttrErrMsg)
        ELSE /\ tasks' = SetTask(tasks, t,
                    [got[1] EXCEPT !.status = COMPLETED,
                                   !.result = <<StockSearchResult(result)>>])
             /\ runs' = [runs EXCEPT ![i] = [r EXCEPT !.pc = "returned", !.stock = stock,
                             !.result = <<>>]]

\* A row was appended: go on with the next row, or complete.
Continue(i, result) ==
    LET r == runs[i]
    IN  IF Len(result) = Len(r.stock)
        THEN Complete(i, r.stock, result)
        ELSE /\ runs' = [runs EXCEPT ![i] = [r EXCEPT !.result = result]]
             /\ UNCHANGED tasks

RECURSIVE Fetched(_)
\* Rows the warehouse has reported to the first n runs.
Fetched(n) == IF n = 0 THEN 0 ELSE Len(runs[n].stock) + Fetched(n - 1)

Work == 2 * Len(runs) + Fetched(Len(runs))

\* search_products runs the searches of a batch at once.
batch_size == 3

\* RateLimiter.__init__, and a client that has made no call yet.
NoCall == [pc |-> "idle", site |-> "pre", wake |-> 0, tries |-> 0, sent |-> 0, n429 |-> 0]

LimiterIdle ==
    /\ rate_limiter = [remaining_requests |-> 0, limit |-> 0, time_interval |-> 0,
                       reset_time |-> <<>>]
    /\ lock = [holder |-> 0, waiters |-> <<>>]
    /\ calls = [c \in 1..batch_size |-> NoCall]
    /\ now = 0
    /\ announced = 0
    /\ announced429 = 0
    /\ received = <<>>

\* search_products has not been called.
BatchIdle ==
    /\ names = <<>>
    /\ batch_pc = "idle"
    /\ batch_i = 0
    /\ batch_results = <<>>
    /\ results = <<>>
    /\ not_found = <<>>

\* What create_demand has computed before it has computed anything.
DemandBlank ==
    /\ valid_rows = <<>>
    /\ invalid_rows = <<>>
    /\ warehouse_products = [products |-> <<>>, not_found |-> <<>>]
    /\ prepared_products = <<>>
    /\ unmatched_rows = <<>>
    /\ not_found_rows = <<>>
    /\ demand_result = <<>>

\* create_demand has not been called.
DemandIdle ==
    /\ csv_rows = <<>>
    /\ demand_pc = "idle"
    /\ DemandBlank

\* CompetitorsService.__init__ of services/competitors.py: no browser yet,
\* no search made.
BrowserIdle ==
    /\ playwright = None
    /\ browser = None
    /\ context = None
    /\ search_pc = "idle"
    /\ attempts = 0
    /\ tried = 0
    /\ opened = 0
    /\ closed = 0
    /\ outcome = None

Init ==
    /\ tasks = [k \in {} |-> {}]
    /\ runs = <<>>
    /\ resp = <<>>
    /\ evicted = {}
    /\ LimiterIdle
    /\ BatchIdle
    /\ DemandIdle
    /\ BrowserIdle

\* router.search_competitors_stock: schedule the background run, return the id.
Submit(o, g) ==
    /\ Work + 2 <= MaxWork
    /\ runs' = Append(runs, Run(o, g))
    /\ UNCHANGED <<tasks, resp, evicted>>
    /\ UNCHANGED outsideRegistry

\* search_stock up to its first await: register the RUNNING record.
StartPipeline(i) ==
    LET r == runs[i]
        t == TaskId(r.group)
    IN  /\ r.pc = "scheduled"
        /\ tasks' = SetTask(tasks, t, Task(t, r.owner, RUNNING, <<>>, None))
        /\ runs' = [runs EXCEPT ![i].pc = "fetching"]
        /\ evicted' = {e \in evicted : e[2] # t}
        /\ UNCHANGED resp
        /\ UNCHANGED outsideRegistry

\* warehouse.search_stock returned rows.
FetchStock(i, rows) ==
    /\ runs[i].pc = "fetching"
    /\ Work + Len(rows) <= MaxWork
    /\ IF rows = <<>>
       THEN Complete(i, rows, <<>>)
       ELSE /\ runs' = [runs EXCEPT ![i].pc = "searching", ![i].stock = rows]
            /\ UNCHANGED tasks
    /\ UNCHANGED <<resp, evicted>>
    /\ UNCHANGED outsideRegistry

\* warehouse.search_stock raised.
FetchFails(i, msg) ==
    /\ runs[i].pc = "fetching"
    /\ Raise(i, msg)
    /\ UNCHANGED <<resp, evicted>>
    /\ UNCHANGED outsideRegistry

\* The row being searched.
Item(i) == runs[i].stock[Len(runs[i].result) + 1]

\* competitors.search with an empty query: HTTPException, raised outside the
\* try block of search, is not a CompetitorsSearchException.
SearchEmptyQuery(i) ==
    /\ runs[i].pc = "searching"
    /\ Item(i).name = ""
    /\ Raise(i, EmptyQueryMsg)
    /\ UNCHANGED <<resp, evicted>>
    /\ UNCHANGED outsideRegistry

\* Any other failure of the search: CompetitorsSearchException.
SearchFails(i) ==
    /\ runs[i].pc = "searching"
    /\ Item(i).name # ""
    /\ Continue(i, AppendRow(runs[i].result, StockSearchRow(Item(i), None, None, None)))
    /\ UNCHANGED <<resp, evicted>>
    /\ UNCHANGED outsideRegistry

\* The extraction returned product p.
SearchFinds(i, p) ==
    /\ runs[i].pc = "searching"
    /\ Item(i).name # ""
    /\ Continue(i, AppendRow(runs[i].result,
            StockSearchRow(Item(i), p.name, p.price, UrlJoin(BaseUrl, p.url))))
    /\ UNCHANGED <<resp, evicted>>
    /\ UNCHANGED outsideRegistry

\* GET /tasks: get_task_status(task_id) by owner o.
GetTaskStatus(o, task_id) ==
    LET task == StatusTask(tasks, task_id, o)
    IN  /\ tasks' = StatusStore(tasks, task_id, o)
        /\ resp' = <<[owner |-> o, asked |-> task_id, status |-> task.status]>>
        /\ evicted' = IF task.status \in Terminal
                      THEN evicted \cup {<<o, task_id>>}
                      ELSE evicted
        /\ runs' = [i \in DOMAIN runs |->
                       IF /\ task.status \in Terminal
                          /\ runs[i].owner = o
                          /\ TaskId(runs[i].group) = task_id
                       THEN [runs[i] EXCEPT !.seen = TRUE]
                       ELSE runs[i]]
        /\ UNCHANGED outsideRegistry

Next ==
    \/ \E o \in Owners, g \in Groups : Submit(o, g)
    \/ \E i \in DOMAIN runs : StartPipeline(i)
    \/ \E i \in DOMAIN runs, rows \in StockLists(MaxWork - Work) : FetchStock(i, rows)
    \/ \E i \in DOMAIN runs, msg \in WarehouseErrors : FetchFails(i, msg)
    \/ \E i \in DOMAIN runs : SearchEmptyQuery(i)
    \/ \E i \in DOMAIN runs : SearchFails(i)
    \/ \E i \in DOMAIN runs, p \in LLMProducts : SearchFinds(i, p)
    \/ \E o \in Owners, task_id \in PollIds : GetTaskStatus(o, task_id)

Spec == Init /\ [][Next]_vars

\* The most runs a behaviour has.
MaxRuns == MaxWork \div 2

\* A step of the i-th run of search_stock: the event loop runs the scheduled
\* background task, and every await of the run returns or raises.
PipelineStep(i) ==
    /\ i \in DOMAIN runs
    /\ \/ StartPipeline(i)
       \/ \E rows \in StockLists(MaxWork - Work) : FetchStock(i, rows)
       \/ \E msg \in WarehouseErrors : FetchFails(i, msg)
       \/ SearchEmptyQuery(i)
       \/ SearchFails(i)
       \/ \E p \in LLMProducts : SearchFinds(i, p)

\* The registry and its runs when every run that can take a step
\* eventually takes one.
SpecLive == Spec /\ \A i \in 1..MaxRuns : WF_vars(PipelineStep(i))

\* ---------------------------------------------------------------- RateLimiter, _make_request
\* time_interval / 1000 and timedelta(milliseconds=...): headers are in
\* milliseconds, the clock in seconds.
MsPerSecond == 1000

\* The interval _make_request forces on a 429 whose error code is 1073.
ForcedInterval == 10000

\* The error code _make_request looks for, and another one.
RateLimitCode == 1073
ErrorCodes == {RateLimitCode, 1049}

\* The rate limit headers of a response; an absent header reads as 0, and
\* the warehouse reports no more requests remaining than its limit.
\* X-RateLimit-Remaining, X-RateLimit-Limit, X-Lognex-Retry-TimeInterval,
\* X-Lognex-Retry-After.
Headers ==
    { h \in [remaining : {0, 1}, limit : {0, 1}, interval : {0, 1000},
             retry_after : {0, 1000, 2000}] : h.remaining <= h.limit }

WithStatus(h, status, code) ==
    [status |-> status, code |-> code, remaining |-> h.remaining, limit |-> h.limit,
     interval |-> h.interval, retry_after |-> h.retry_after]

\* What the warehouse may answer: success, 429 with an error code, or another
\* error.
Responses ==
    {WithStatus(h, 200, 0) : h \in Headers}
        \cup {WithStatus(h, 500, 0) : h \in Headers}
        \cup {WithStatus(h, 429, code) : h \in Headers, code \in ErrorCodes}

\* update_limits(headers) at time t.
UpdateLimits(rl, h, t) ==
    [remaining_requests |-> h.remaining,
     limit |-> h.limit,
     time_interval |-> h.interval,
     reset_time |-> IF h.retry_after > 0
                    THEN <<t + (h.retry_after \div MsPerSecond)>>
                    ELSE rl.reset_time]

\* The 429 branch: force the limiter when the error code is 1073.
Force429(rl, r) ==
    IF r.code = RateLimitCode
    THEN [rl EXCEPT !.remaining_requests = 0, !.time_interval = ForcedInterval]
    ELSE rl

\* A call is retried on every status >= 400.
RetriedOnAnyError(status) == status >= 400

\* The status _make_request answers by calling itself again.
Retried(status) == status = 429

\* The second test of acquire: sleep the interval, or leave.
AfterReset(rl, t) ==
    IF rl.remaining_requests = 0 /\ rl.time_interval > 0
    THEN [pc |-> "sleep_interval", wake |-> t + (rl.time_interval \div MsPerSecond)]
    ELSE [pc |-> "pass", wake |-> 0]

\* The body of acquire from its start: sleep until reset_time, or go on to
\* the second test.
EnterBody(rl, t) ==
    IF rl.reset_time # <<>> /\ t < rl.reset_time[1]
    THEN [pc |-> "sleep_reset", wake |-> rl.reset_time[1]]
    ELSE AfterReset(rl, t)

\* asyncio.Lock.release: the first waiter is woken and takes the lock; later
\* comers queue behind the waiters.
Release(lk) ==
    IF lk.waiters = <<>>
    THEN [holder |-> 0, waiters |-> <<>>]
    ELSE [holder |-> Head(lk.waiters), waiters |-> Tail(lk.waiters)]

\* client.request(...) is called.
Issue(call) ==
    [call EXCEPT !.pc = "inflight", !.wake = 0, !.tries = @ + 1, !.sent = @ + 1]

RECURSIVE Arrive(_, _, _, _, _, _)
\* Call c leaves acquire at its site: the acquire of line 59 ("pre") is
\* followed by the request, the acquire of the 429 branch ("post") by
\* _make_request again, which starts with the acquire of line 59.
Passed(c, site, rl, lk, call, t) ==
    IF site = "pre"
    THEN [lock |-> Release(lk), call |-> Issue(call)]
    ELSE Arrive(c, "pre", rl, Release(lk), call, t)

\* Call c holds the lock and runs the body of acquire up to its first sleep.
Body(c, site, rl, lk, call, t) ==
    LET o == EnterBody(rl, t)
    IN  IF o.pc = "pass"
        THEN Passed(c, site, rl, lk, call, t)
        ELSE [lock |-> lk, call |-> [call EXCEPT !.pc = o.pc, !.site = site, !.wake = o.wake]]

\* Call c reaches `async with self.lock` of acquire: it queues when the lock
\* is taken, and runs the body otherwise.
Arrive(c, site, rl, lk, call, t) ==
    IF lk.holder # 0
    THEN [lock |-> [lk EXCEPT !.waiters = Append(@, c)],
          call |-> [call EXCEPT !.pc = "lock", !.site = site]]
    ELSE Body(c, site, rl, [lk EXCEPT !.holder = c], call, t)

RECURSIVE Total429(_)
\* The 429 responses the first n calls have received.
Total429(n) == IF n = 0 THEN 0 ELSE calls[n].n429 + Total429(n - 1)

RECURSIVE Started(_)
\* How many of the first n calls were made.
Started(n) == IF n = 0 THEN 0 ELSE (IF calls[n].pc = "idle" THEN 0 ELSE 1) + Started(n - 1)

Load == Started(batch_size) + Total429(batch_size) + now

\* Requests were issued in this step.
Issued == \E c \in DOMAIN calls : calls'[c].sent > calls[c].sent

\* The moved state of a step of call c, and the history it leaves.
Moves(c, rl, out) ==
    /\ rate_limiter' = rl
    /\ lock' = out.lock
    /\ calls' = [calls EXCEPT ![c] = out.call]

\* search_product -> _make_request: a new call reaches its first acquire.
MakeRequest(c) ==
    /\ calls[c].pc = "idle"
    /\ Load < MaxLoad
    /\ \A b \in 1..(c - 1) : calls[b].pc # "idle"
    /\ Moves(c, rate_limiter, Arrive(c, "pre", rate_limiter, lock, calls[c], now))
    /\ announced429' = IF Issued THEN 0 ELSE announced429
    /\ received' = <<>>
    /\ UNCHANGED <<now, announced>>
    /\ UNCHANGED outsideLimiter

\* The lock was released to call c, which waited for it.
LockGranted(c) ==
    /\ calls[c].pc = "lock"
    /\ lock.holder = c
    /\ Moves(c, rate_limiter, Body(c, calls[c].site, rate_limiter, lock, calls[c], now))
    /\ announced429' = IF Issued THEN 0 ELSE announced429
    /\ received' = <<>>
    /\ UNCHANGED <<now, announced>>
    /\ UNCHANGED outsideLimiter

\* The sleep until reset_time is over: clear reset_time, refill the
\* counter, go on to the second test.
WakeReset(c) ==
    /\ calls[c].pc = "sleep_reset"
    /\ now >= calls[c].wake
    /\ LET rl == [rate_limiter EXCEPT !.reset_time = <<>>,
                                      !.remaining_requests = rate_limiter.limit]
           o == AfterReset(rl, now)
       IN  Moves(c, rl,
                 IF o.pc = "pass"
                 THEN Passed(c, calls[c].site, rl, lock, calls[c], now)
                 ELSE [lock |-> lock,
                       call |-> [calls[c] EXCEPT !.pc = o.pc, !.wake = o.wake]])
    /\ announced429' = IF Issued THEN 0 ELSE announced429
    /\ received' = <<>>
    /\ UNCHANGED <<now, announced>>
    /\ UNCHANGED outsideLimiter

\* The sleep of the interval is over: acquire returns.
WakeInterval(c) ==
    /\ calls[c].pc = "sleep_interval"
    /\ now >= calls[c].wake
    /\ Moves(c, rate_limiter, Passed(c, calls[c].site, rate_limiter, lock, calls[c], now))
    /\ announced429' = IF Issued THEN 0 ELSE announced429
    /\ received' = <<>>
    /\ UNCHANGED <<now, announced>>
    /\ UNCHANGED outsideLimiter

\* The deadline a response announces at time t (0: none).
Deadline(r, t) == IF r.retry_after > 0 THEN t + (r.retry_after \div MsPerSecond) ELSE 0

Max(a, b) == IF a >= b THEN a ELSE b

\* The response r to call c arrives: update_limits, then the 429 branch,
\* raise_for_status, or the return.
Response(c, r) ==
    /\ calls[c].pc = "inflight"
    /\ r.status = 429 => Load < MaxLoad
    /\ LET rl == UpdateLimits(rate_limiter, r, now)
       IN  IF Retried(r.status)
           THEN Moves(c, Force429(rl, r),
                      Arrive(c, "post", Force429(rl, r), lock,
                             [calls[c] EXCEPT !.tries = 0, !.n429 = @ + 1], now))
           ELSE Moves(c, rl,
                      [lock |-> lock,
                       call |-> [calls[c] EXCEPT
                                    !.pc = IF r.status >= 400 THEN "raised" ELSE "returned"]])
    /\ received' = <<[call |-> c, r |-> r]>>
    /\ announced' = Max(announced, Deadline(r, now))
    /\ announced429' = IF Issued
                       THEN 0
                       ELSE IF r.status = 429
                            THEN Max(announced429, Deadline(r, now))
                            ELSE announced429
    /\ UNCHANGED now
    /\ UNCHANGED outsideLimiter

\* A second passes.
Tick ==
    /\ Load < MaxLoad
    /\ now' = now + 1
    /\ received' = <<>>
    /\ UNCHANGED <<rate_limiter, lock, calls, announced, announced429>>
    /\ UNCHANGED outsideLimiter

RegistryIdle ==
    /\ tasks = [k \in {} |-> {}]
    /\ runs = <<>>
    /\ resp = <<>>
    /\ evicted = {}

InitLimiter == LimiterIdle /\ RegistryIdle /\ BatchIdle /\ DemandIdle /\ BrowserIdle

NextLimiter ==
    \/ \E c \in 1..batch_size : MakeRequest(c)
    \/ \E c \in 1..batch_size : LockGranted(c)
    \/ \E c \in 1..batch_size : WakeReset(c)
    \/ \E c \in 1..batch_size : WakeInterval(c)
    \/ \E c \in 1..batch_size, r \in Responses : Response(c, r)
    \/ Tick

SpecLimiter == InitLimiter /\ [][NextLimiter]_vars

\* ---------------------------------------------------------------- search_products
Names == {"A", "B"}

NameLists == UNION { [1..n -> Names] : n \in 0..MaxNames }

\* A search that has not returned yet.
Pending == [type |-> "pending"]

\* An optional value: Null is None, Some(x) is x.
Null == <<>>
Some(x) == <<x>>

\* WarehouseProduct(id, name, things, purchase_price); things is None or a
\* list of serial numbers, purchase_price None or a number of cents.
WarehouseProduct(id, name, things, purchase_price) ==
    [type |-> "WarehouseProduct", id |-> id, name |-> name, things |-> things,
     purchase_price |-> purchase_price]

\* The products the catalog may list first for a search of name; search_product
\* reads id, name and things of the row.
Hits(name) ==
    { WarehouseProduct("id-" \o name, name, Some(<<"SN1">>), Null),
      WarehouseProduct("id-" \o name, name \o " 128GB", Some(<<>>), Null),
      WarehouseProduct("id-" \o name, name, Null, Null) }

\* search_product(name) raises HTTPException(404) when the catalog lists no
\* row, and passes on the error of _make_request.
Raised(type, detail) == [type |-> type, detail |-> detail]

ProductNotFound(name) == Raised("HTTPException", "Product not found: " \o name)

\* What search_product(name) may give.
Outcomes(name) ==
    Hits(name) \cup {ProductNotFound(name), Raised("HTTPStatusError", "500")}

\* isinstance(result, Exception) that is never true.
IsNeverException(result) == FALSE

\* isinstance(result, Exception)
IsException(result) == result.type \in {"HTTPException", "HTTPStatusError"}

RECURSIVE Collect(_, _, _, _)
\* The loop over zip(batch, batch_results) for the names from..to: the
\* found and not-found lists after it.
Collect(from, to, found, missing) ==
    IF from > to
    THEN [results |-> found, not_found |-> missing]
    ELSE IF IsException(batch_results[from])
         THEN Collect(from + 1, to, found, Append(missing, names[from]))
         ELSE Collect(from + 1, to, Append(found, batch_results[from]), missing)

Min(a, b) == IF a <= b THEN a ELSE b

\* Every remaining name at once: names[batch_i :].
Unbatched == (batch_i + 1)..Len(names)

\* The indices of the current batch: names[batch_i : batch_i + batch_size].
Batch == (batch_i + 1)..Min(batch_i + batch_size, Len(names))

\* search_products(ns) up to the first gather.
SearchProducts(ns) ==
    /\ batch_pc = "idle"
    /\ names' = ns
    /\ batch_results' = [k \in 1..Len(ns) |-> Pending]
    /\ batch_pc' = IF ns = <<>> THEN "returned" ELSE "gather"
    /\ UNCHANGED <<batch_i, results, not_found>>
    /\ UNCHANGED outsideBatch

\* The search of the k-th name ends with outcome o.
SearchProduct(k, o) ==
    /\ batch_pc = "gather"
    /\ k \in Batch
    /\ batch_results[k] = Pending
    /\ batch_results' = [batch_results EXCEPT ![k] = o]
    /\ UNCHANGED <<names, batch_pc, batch_i, results, not_found>>
    /\ UNCHANGED outsideBatch

\* gather returned: sort the batch's results, then wait for the limiter or
\* return.
Gathered ==
    /\ batch_pc = "gather"
    /\ \A k \in Batch : batch_results[k] # Pending
    /\ LET c == Collect(batch_i + 1, Min(batch_i + batch_size, Len(names)), results, not_found)
       IN  /\ results' = c.results
           /\ not_found' = c.not_found
    /\ batch_pc' = IF batch_i + batch_size < Len(names) THEN "acquire" ELSE "returned"
    /\ UNCHANGED <<names, batch_i, batch_results>>
    /\ UNCHANGED outsideBatch

\* rate_limiter.acquire() between two batches returned: next batch.
Acquired ==
    /\ batch_pc = "acquire"
    /\ batch_i' = batch_i + batch_size
    /\ batch_pc' = "gather"
    /\ UNCHANGED <<names, batch_results, results, not_found>>
    /\ UNCHANGED outsideBatch

InitBatch == BatchIdle /\ RegistryIdle /\ LimiterIdle /\ DemandIdle /\ BrowserIdle

NextBatch ==
    \/ \E ns \in NameLists : SearchProducts(ns)
    \/ \E k \in DOMAIN names : \E o \in Outcomes(names[k]) : SearchProduct(k, o)
    \/ Gathered
    \/ Acquired

SpecBatch == InitBatch /\ [][NextBatch]_vars

\* ---------------------------------------------------------------- create_demand, prepare_products
\* CsvRow(idx, serial_number, product_name, purchase_price); purchase_price
\* is None when parse_price could not read it.
CsvRow(idx, serial_number, product_name, purchase_price) ==
    [idx |-> idx, serial_number |-> serial_number, product_name |-> product_name,
     purchase_price |-> purchase_price]

SerialNumbers == {"SN1", "SN2", ""}

Prices == {Null, Some(15000)}

RECURSIVE CsvFiles(_)
\* read_csv_data: the files of n lines; idx is the line's number.
CsvFiles(n) ==
    IF n = 0 THEN {<<>>}
    ELSE { Append(rows, CsvRow(n, serial_number, product_name, purchase_price)) :
              rows \in CsvFiles(n - 1), serial_number \in SerialNumbers,
              product_name \in Names, purchase_price \in Prices }

RowLists == UNION { CsvFiles(n) : n \in 0..MaxRows }

is_valid_row(row) ==
    ~(row.serial_number = "" \/ row.product_name = "" \/ row.purchase_price = Null)

RECURSIVE Filter(_, _, _)
\* filter_rows: the valid (want = TRUE) or invalid rows among the first n.
Filter(rows, n, want) ==
    IF n = 0 THEN <<>>
    ELSE IF is_valid_row(rows[n]) = want
         THEN Append(Filter(rows, n - 1, want), rows[n])
         ELSE Filter(rows, n - 1, want)

RECURSIVE SearchOutcomes(_, _)
\* What the searches of the names of the first n rows may give, one outcome
\* per row.
SearchOutcomes(rows, n) ==
    IF n = 0 THEN {<<>>}
    ELSE { Append(outs, o) : outs \in SearchOutcomes(rows, n - 1),
                             o \in Outcomes(rows[n].product_name) }

RECURSIVE Partition(_, _, _)
\* search_products over the names of the first n rows, given the outcome of
\* each search: the products found and the names not found.
Partition(rows, outs, n) ==
    IF n = 0 THEN [products |-> <<>>, not_found |-> <<>>]
    ELSE LET rest == Partition(rows, outs, n - 1)
         IN  IF IsException(outs[n])
             THEN [rest EXCEPT !.not_found = Append(@, rows[n].product_name)]
             ELSE [rest EXCEPT !.products = Append(@, outs[n])]

\* p.things and serial_number in p.things
Contains(p, serial_number) ==
    /\ p.things # Null
    /\ p.things[1] # <<>>
    /\ \E j \in DOMAIN p.things[1] : p.things[1][j] = serial_number

\* The index of the last product that contains the serial number, 0 for
\* None.
LastMatchedProduct(products, serial_number) ==
    IF \E j \in DOMAIN products : Contains(products[j], serial_number)
    THEN CHOOSE j \in DOMAIN products :
            /\ Contains(products[j], serial_number)
            /\ \A h \in (j + 1)..Len(products) : ~Contains(products[h], serial_number)
    ELSE 0

\* next(p for p in products if ..., None): the index of the first product
\* that contains the serial number, 0 for None.
MatchedProduct(products, serial_number) ==
    IF \E j \in DOMAIN products : Contains(products[j], serial_number)
    THEN CHOOSE j \in DOMAIN products :
            /\ Contains(products[j], serial_number)
            /\ \A h \in 1..(j - 1) : ~Contains(products[h], serial_number)
    ELSE 0

\* An unmatched row that is forgotten.
ForgetUnmatched(unmatched, row) == unmatched

\* unmatched_rows.append(row)
AppendUnmatched(unmatched, row) == Append(unmatched, row)

RECURSIVE PrepareProducts(_, _, _)
\* prepare_products over the first n rows.
PrepareProducts(rows, products, n) ==
    IF n = 0 THEN [prepared_products |-> <<>>, unmatched_rows |-> <<>>]
    ELSE LET rest == PrepareProducts(rows, products, n - 1)
             row == rows[n]
             m == MatchedProduct(products, row.serial_number)
         IN  IF m = 0
             THEN [rest EXCEPT !.unmatched_rows = AppendUnmatched(@, row)]
             ELSE [rest EXCEPT !.prepared_products =
                      Append(@, WarehouseProduct(products[m].id, row.product_name,
                                    Some(<<row.serial_number>>), row.purchase_price))]

RECURSIVE NotFoundRows(_, _, _)
\* [row for row in valid_rows if row.product_name in not_found]
NotFoundRows(rows, missing, n) ==
    IF n = 0 THEN <<>>
    ELSE IF \E j \in DOMAIN missing : missing[j] = rows[n].product_name
         THEN Append(NotFoundRows(rows, missing, n - 1), rows[n])
         ELSE NotFoundRows(rows, missing, n - 1)

\* create_demand up to the call of search_products: read the file, filter
\* the rows, raise when none is valid.
FilterRows ==
    /\ demand_pc = "called"
    /\ valid_rows' = Filter(csv_rows, Len(csv_rows), TRUE)
    /\ invalid_rows' = Filter(csv_rows, Len(csv_rows), FALSE)
    /\ demand_pc' = IF valid_rows' = <<>> THEN "raised" ELSE "searching"
    /\ UNCHANGED <<csv_rows, warehouse_products, prepared_products, unmatched_rows,
                   not_found_rows, demand_result>>
    /\ UNCHANGED outsideDemand

\* search_products returned: match the rows, list the rows not found, call
\* warehouse.create_demand.
ProductsSearched(outs) ==
    /\ demand_pc = "searching"
    /\ LET wp == Partition(valid_rows, outs, Len(valid_rows))
           pp == PrepareProducts(valid_rows, wp.products, Len(valid_rows))
       IN  /\ warehouse_products' = wp
           /\ prepared_products' = pp.prepared_products
           /\ unmatched_rows' = pp.unmatched_rows
           /\ not_found_rows' = NotFoundRows(valid_rows, wp.not_found, Len(valid_rows))
    /\ demand_pc' = "creating"
    /\ UNCHANGED <<csv_rows, valid_rows, invalid_rows, demand_result>>
    /\ UNCHANGED outsideDemand

\* warehouse.create_demand returned the demand: build the result.
DemandCreated ==
    /\ demand_pc = "creating"
    /\ demand_result' = <<[demand |-> [id |-> "demand-1", products |-> prepared_products],
                           processed_rows |-> valid_rows,
                           not_found_rows |-> not_found_rows,
                           unmatched_rows |-> unmatched_rows,
                           invalid_rows |-> invalid_rows]>>
    /\ demand_pc' = "returned"
    /\ UNCHANGED <<csv_rows, valid_rows, invalid_rows, warehouse_products,
                   prepared_products, unmatched_rows, not_found_rows>>
    /\ UNCHANGED outsideDemand

\* warehouse.create_demand raised.
DemandFails ==
    /\ demand_pc = "creating"
    /\ demand_pc' = "raised"
    /\ UNCHANGED <<csv_rows, valid_rows, invalid_rows, warehouse_products,
                   prepared_products, unmatched_rows, not_found_rows, demand_result>>
    /\ UNCHANGED outsideDemand

\* create_demand is called with a file of rows.
InitDemand ==
    /\ csv_rows \in RowLists
    /\ demand_pc = "called"
    /\ DemandBlank
    /\ RegistryIdle
    /\ LimiterIdle
    /\ BatchIdle
    /\ BrowserIdle

NextDemand ==
    \/ FilterRows
    \/ \E outs \in SearchOutcomes(valid_rows, Len(valid_rows)) : ProductsSearched(outs)
    \/ DemandCreated
    \/ DemandFails

SpecDemand == InitDemand /\ [][NextDemand]_vars

\* ---------------------------------------------------------------- browser session: search
\* The handles of the session.
Handles == [playwright |-> playwright, browser |-> browser, context |-> context]

\* Where _cleanup may stop: a close or stop call that raises ends it, the
\* handle in question and the later ones are left as they are.
CleanupFailures == {"none", "context", "browser", "playwright"}

\* _cleanup with the failure point f: the handles after it.
Cleanup(h, f) ==
    LET c == IF h.context # None /\ f = "context" THEN "stop" ELSE "go"
        b == IF c = "stop" \/ (h.browser # None /\ f = "browser") THEN "stop" ELSE "go"
        w == IF b = "stop" \/ (h.playwright # None /\ f = "playwright") THEN "stop" ELSE "go"
    IN  [context |-> IF c = "go" THEN None ELSE h.context,
         browser |-> IF b = "go" THEN None ELSE h.browser,
         playwright |-> IF w = "go" THEN None ELSE h.playwright]

\* The transport closed: what is open is dead from now on.
Dead(x) == IF x = "open" THEN "dead" ELSE x

Crashed(h) ==
    [context |-> Dead(h.context), browser |-> Dead(h.browser), playwright |-> h.playwright]

SetHandles(h) ==
    /\ playwright' = h.playwright
    /\ browser' = h.browser
    /\ context' = h.context

Queries == {"a", ""}

\* A page is closed only when the search succeeded.
CloseOnSuccess(n, ok) == IF ok THEN n + 1 ELSE n

\* finally: await page.close()
Finally(n, ok) == n + 1

\* The top-level search ended with the exception exc.
Ends(exc) ==
    /\ search_pc' = "idle"
    /\ outcome' = exc

\* except Exception with "Connection closed" or "Target closed" in its
\* message: _cleanup with failure point f, then search(query) again.
Retry(h, f) ==
    /\ tried < MaxAttempts
    /\ SetHandles(Cleanup(h, f))
    /\ search_pc' = "ensure"
    /\ attempts' = attempts + 1
    /\ tried' = tried + 1
    /\ UNCHANGED outcome

\* search(query) is called: an empty query raises HTTPException.
Search(query) ==
    /\ search_pc = "idle"
    /\ tried < MaxAttempts
    /\ IF query = ""
       THEN /\ Ends("HTTPException")
            /\ attempts' = 0
            /\ UNCHANGED tried
       ELSE /\ search_pc' = "ensure"
            /\ attempts' = 1
            /\ tried' = tried + 1
            /\ UNCHANGED outcome
    /\ UNCHANGED <<playwright, browser, context, opened, closed>>
    /\ UNCHANGED outsideBrowser

\* _ensure_browser with a browser already set: nothing is launched; search
\* raises when there is no context.
EnsureKeeps ==
    /\ search_pc = "ensure"
    /\ browser # None
    /\ IF context = None
       THEN Ends("CompetitorsSearchException")
       ELSE /\ search_pc' = "new_page"
            /\ UNCHANGED outcome
    /\ UNCHANGED <<playwright, browser, context, attempts, tried, opened, closed>>
    /\ UNCHANGED outsideBrowser

\* _ensure_browser launches playwright, the browser and the context.
EnsureLaunches ==
    /\ search_pc = "ensure"
    /\ browser = None
    /\ SetHandles([playwright |-> "open", browser |-> "open", context |-> "open"])
    /\ search_pc' = "new_page"
    /\ UNCHANGED <<attempts, tried, opened, closed, outcome>>
    /\ UNCHANGED outsideBrowser

\* _ensure_browser fails at a stage of the launch: _cleanup, then
\* CompetitorsSearchException("Failed to initialize browser"), which the
\* handler of search wraps without a retry.
EnsureFails(stage, f) ==
    /\ search_pc = "ensure"
    /\ browser = None
    /\ LET h == [playwright |-> IF stage = "start" THEN playwright ELSE "open",
                 browser |-> IF stage = "new_context" THEN "open" ELSE browser,
                 context |-> context]
       IN  SetHandles(Cleanup(h, f))
    /\ Ends("CompetitorsSearchException")
    /\ UNCHANGED <<attempts, tried, opened, closed>>
    /\ UNCHANGED outsideBrowser

\* self._context.new_page() on a live context.
NewPage ==
    /\ search_pc = "new_page"
    /\ context = "open"
    /\ search_pc' = "page"
    /\ opened' = opened + 1
    /\ UNCHANGED <<playwright, browser, context, attempts, tried, closed, outcome>>
    /\ UNCHANGED outsideBrowser

\* new_page raises because the transport is closed (a dead context always
\* does): no page was opened; cleanup and retry.
NewPageClosed(f) ==
    /\ search_pc = "new_page"
    /\ Retry(Crashed(Handles), f)
    /\ UNCHANGED <<opened, closed>>
    /\ UNCHANGED outsideBrowser

\* new_page raises something else.
NewPageFails ==
    /\ search_pc = "new_page"
    /\ context = "open"
    /\ Ends("CompetitorsSearchException")
    /\ UNCHANGED <<playwright, browser, context, attempts, tried, opened, closed>>
    /\ UNCHANGED outsideBrowser

\* goto, wait_for_selector, content and the extraction succeeded: the page is
\* closed and the product returned.
PageReturns ==
    /\ search_pc = "page"
    /\ closed' = Finally(closed, TRUE)
    /\ Ends("CompetitorsProduct")
    /\ UNCHANGED <<playwright, browser, context, attempts, tried, opened>>
    /\ UNCHANGED outsideBrowser

\* Navigation error, selector timeout or extraction error: the page is
\* closed, the typed exception raised.
PageFails ==
    /\ search_pc = "page"
    /\ closed' = Finally(closed, FALSE)
    /\ Ends("CompetitorsSearchException")
    /\ UNCHANGED <<playwright, browser, context, attempts, tried, opened>>
    /\ UNCHANGED outsideBrowser

\* The transport closed while the page was in use: the page is closed,
\* then cleanup and retry.
PageClosed(f) ==
    /\ search_pc = "page"
    /\ closed' = Finally(closed, FALSE)
    /\ Retry(Crashed(Handles), f)
    /\ UNCHANGED opened
    /\ UNCHANGED outsideBrowser

InitBrowser == BrowserIdle /\ RegistryIdle /\ LimiterIdle /\ BatchIdle /\ DemandIdle

NextBrowser ==
    \/ \E query \in Queries : Search(query)
    \/ EnsureKeeps
    \/ EnsureLaunches
    \/ \E stage \in {"start", "launch", "new_context"}, f \in CleanupFailures :
          EnsureFails(stage, f)
    \/ NewPage
    \/ \E f \in CleanupFailures : NewPageClosed(f)
    \/ NewPageFails
    \/ PageReturns
    \/ PageFails
    \/ \E f \in CleanupFailures : PageClosed(f)

SpecBrowser == InitBrowser /\ [][NextBrowser]_vars

\* ---------------------------------------------------------------- claims
\* Owner o has submitted a search whose task id is t.
Submitted(o, t) == \E i \in DOMAIN runs : runs[i].owner = o /\ TaskId(runs[i].group) = t

\* C1: owner isolation on read. An owner who submitted no search for id t
\* gets NOT_FOUND from get_task_status(t) in every state, whatever another
\* owner's pipeline for t has stored (running, completed, failed), and the
\* last response given agrees; get_task(t, o) is None whenever the stored
\* entry's owner is not o.
C1_OwnerIsolation ==
    /\ \A o \in Owners, t \in PollIds :
          ~Submitted(o, t) => StatusTask(tasks, t, o).status = NOT_FOUND
    /\ (resp # <<>> /\ ~Submitted(resp[1].owner, resp[1].asked))
          => resp[1].status = NOT_FOUND
    /\ \A o \in Owners, t \in DOMAIN tasks :
          tasks[t].owner # o => GetTask(tasks, t, o) = <<>>

\* The last poll was by an owner who submitted nothing for the id, it got
\* NOT_FOUND, and the registry holds another owner's terminal record for it.
C1_Witness ==
    /\ resp # <<>>
    /\ resp[1].status = NOT_FOUND
    /\ ~Submitted(resp[1].owner, resp[1].asked)
    /\ resp[1].asked \in DOMAIN tasks
    /\ tasks[resp[1].asked].owner # resp[1].owner
    /\ tasks[resp[1].asked].status \in Terminal

C3_SubmitRegisters ==
    \A i \in DOMAIN runs :
        ~runs[i].seen =>
            StatusTask(tasks, TaskId(runs[i].group), runs[i].owner).status # NOT_FOUND

\* C4: every stored task has result and error not both set, and a RUNNING
\* task has neither.
C4_ResultErrorExclusive ==
    \A t \in DOMAIN tasks :
        /\ ~(tasks[t].result # <<>> /\ tasks[t].error # None)
        /\ tasks[t].status = RUNNING => (tasks[t].result = <<>> /\ tasks[t].error = None)

\* C5: terminal states are absorbing. A stored COMPLETED or FAILED record is
\* left as it is by every step, or removed.
C5_TerminalAbsorbing ==
    [][\A t \in DOMAIN tasks :
          tasks[t].status \in Terminal =>
              (t \notin DOMAIN tasks' \/ tasks'[t] = tasks[t])]_vars

\* The run is between its registration and its end.
Executing(i) == runs[i].pc \in {"fetching", "searching"}

\* C6: re-submission coalesces. At most one run per task id is executing.
C6_Coalesces ==
    \A i, j \in DOMAIN runs :
        (i # j /\ Executing(i) /\ Executing(j)) => runs[i].group # runs[j].group

\* C7: per-row failures never fail the task. No run ends on the failure of
\* one row's search, and no stored task is FAILED by one.
C7_RowFailuresNeverFail ==
    /\ \A i \in DOMAIN runs : runs[i].exc # EmptyQueryMsg
    /\ \A t \in DOMAIN tasks : tasks[t].error # EmptyQueryMsg

\* C8: fatal failure is recorded. The step in which a run ends with an
\* exception leaves a FAILED record for its id and owner, whose error is
\* the exception's message and whose result is None.
C8_FatalRecorded ==
    [][\A i \in DOMAIN runs :
          (runs[i].pc # "raised" /\ runs'[i].pc = "raised") =>
              LET t == TaskId(runs[i].group)
              IN  /\ t \in DOMAIN tasks'
                  /\ tasks'[t].owner = runs[i].owner
                  /\ tasks'[t].status = FAILED
                  /\ tasks'[t].error = runs'[i].exc
                  /\ tasks'[t].result = <<>>]_vars

\* Row k of rows carries the name, stock and price of stock row k.
Carries(rows, stock, k) ==
    /\ rows[k].name = stock[k].name
    /\ rows[k].stock = stock[k].stock
    /\ rows[k].price = stock[k].price

\* C9: completion payload. The step in which a run returns stores a
\* COMPLETED record whose result has one row per warehouse stock row, in the
\* warehouse's order, each carrying that row's name, stock and price, and
\* size equal to the number of rows; while a run is searching, the rows
\* assembled so far are those of the first stock rows, in order, and the one
\* row being searched is the next one.
C9_CompletionPayload ==
    /\ [](\A i \in DOMAIN runs :
            runs[i].pc = "searching" =>
                /\ Len(runs[i].result) < Len(runs[i].stock)
                /\ \A k \in 1..Len(runs[i].result) :
                      Carries(runs[i].result, runs[i].stock, k))
    /\ [][\A i \in DOMAIN runs :
            (runs[i].pc # "returned" /\ runs'[i].pc = "returned") =>
                LET t == TaskId(runs[i].group)
                    stock == runs'[i].stock
                IN  /\ t \in DOMAIN tasks'
                    /\ tasks'[t].status = COMPLETED
                    /\ tasks'[t].result # <<>>
                    /\ tasks'[t].result[1].size = Len(stock)
                    /\ Len(tasks'[t].result[1].rows) = Len(stock)
                    /\ \A k \in 1..Len(stock) :
                          Carries(tasks'[t].result[1].rows, stock, k)]_vars

\* A run over two different stock rows returned and its record is stored.
C9_Witness ==
    \E i \in DOMAIN runs :
        LET t == TaskId(runs[i].group)
        IN  /\ runs[i].pc = "returned"
            /\ Len(runs[i].stock) = 2
            /\ runs[i].stock[1] # runs[i].stock[2]
            /\ t \in DOMAIN tasks
            /\ tasks[t].owner = runs[i].owner
            /\ tasks[t].status = COMPLETED
            /\ tasks[t].result # <<>>
            /\ tasks[t].result[1].size = 2

\* C10: in every row of every completed result, found_name, found_price and
\* found_url are all None or all set.
C10_FoundFieldsUnit ==
    \A t \in DOMAIN tasks :
        (tasks[t].status = COMPLETED /\ tasks[t].result # <<>>) =>
            \A k \in 1..Len(tasks[t].result[1].rows) :
                LET row == tasks[t].result[1].rows[k]
                IN  \/ /\ row.found_name = None
                       /\ row.found_price = None
                       /\ row.found_url = None
                    \/ /\ row.found_name # None
                       /\ row.found_price # None
                       /\ row.found_url # None

\* C11: no-match yields nulls. A row of a completed result whose search
\* found no match (the extraction returned an empty name, which the row's
\* found_name would repeat) has found_name, found_price and found_url None:
\* no row of a completed result carries an empty found_name.
C11_NoMatchNulls ==
    \A t \in DOMAIN tasks :
        (tasks[t].status = COMPLETED /\ tasks[t].result # <<>>) =>
            \A k \in 1..Len(tasks[t].result[1].rows) :
                tasks[t].result[1].rows[k].found_name # ""

\* C12: cooldown after 429. After a 429 response that carries a retry-after
\* of d > 0 milliseconds, the next request the client issues (the retry or
\* any other call) goes out no earlier than d after the 429 was received.
C12_CooldownAfter429 == [][Issued => now >= announced429]_vars

\* C13: no request during a cooldown. No call issues a request earlier than
\* the latest cooldown deadline announced by any response the client has
\* received.
C13_NoRequestInCooldown == [][Issued => now >= announced]_vars

\* Call c received a 429 response in this step.
Received429(c) == calls'[c].n429 = calls[c].n429 + 1

\* Call c waits: for a sleep of acquire, or for the limiter's lock.
Suspended(call) == call.pc \in {"sleep_reset", "sleep_interval", "lock"}

\* C14: 429 handling. On every 429, whatever its error code, the client
\* sets remaining_requests to 0 and the interval to the one the response
\* advertises, then suspends before it issues the call again.
C14_Handles429 ==
    [][\A c \in DOMAIN calls :
          Received429(c) =>
              /\ rate_limiter'.remaining_requests = 0
              /\ rate_limiter'.time_interval = received'[1].r.interval
              /\ Suspended(calls'[c])
              /\ calls'[c].sent = calls[c].sent]_vars

\* Call c received a response in this step.
Received(c) ==
    /\ calls[c].pc = "inflight"
    /\ \/ calls'[c].pc \in {"returned", "raised"}
       \/ Received429(c)

\* C15: no retry on other errors. A response with a status >= 400 other
\* than 429 makes _make_request raise at once: exactly one request went out
\* since the call's last 429, none goes out for it in this step or later,
\* and the limiter holds what the response's headers say.
C15_NoRetryOnOtherErrors ==
    [][\A c \in DOMAIN calls :
          /\ (Received(c) /\ received'[1].r.status >= 400 /\ received'[1].r.status # 429) =>
                /\ calls'[c].pc = "raised"
                /\ calls[c].tries = 1
                /\ calls'[c].sent = calls[c].sent
                /\ rate_limiter' = UpdateLimits(rate_limiter, received'[1].r, now)
          /\ calls[c].pc = "raised" => calls'[c] = calls[c]]_vars

\* A call raised on a 500 received after a 429 and its retry.
C15_Witness ==
    \E c \in DOMAIN calls :
        /\ calls[c].pc = "raised"
        /\ calls[c].n429 = 1
        /\ calls[c].sent = 2
        /\ received # <<>>
        /\ received[1].call = c
        /\ received[1].r.status = 500
        /\ received[1].r.retry_after > 0
        /\ rate_limiter.reset_time = <<now + (received[1].r.retry_after \div MsPerSecond)>>

RECURSIVE Found(_)
\* The products the searches of the first n names gave, in the names' order.
Found(n) ==
    IF n = 0 THEN <<>>
    ELSE IF batch_results[n].type = "WarehouseProduct"
         THEN Append(Found(n - 1), batch_results[n])
         ELSE Found(n - 1)

RECURSIVE Missing(_)
\* The first n names whose search gave no product, in the names' order.
Missing(n) ==
    IF n = 0 THEN <<>>
    ELSE IF batch_results[n].type = "WarehouseProduct"
         THEN Missing(n - 1)
         ELSE Append(Missing(n - 1), names[n])

\* C16: batch search partition. search_products returns whatever the
\* single searches did; each name contributes exactly one entry, its product
\* to the found list or itself to not_found, so both lengths add up to the
\* number of names; a name with no catalog hit is in not_found.
C16_BatchPartition ==
    batch_pc = "returned" =>
          /\ \A k \in DOMAIN names : batch_results[k] # Pending
          /\ Len(results) + Len(not_found) = Len(names)
          /\ results = Found(Len(names))
          /\ not_found = Missing(Len(names))
          /\ \A k \in DOMAIN names :
                batch_results[k] = ProductNotFound(names[k]) =>
                    \E j \in DOMAIN not_found : not_found[j] = names[k]

\* search_products returned from two batches: "A" had no hit, "B" had one,
\* a later search failed otherwise.
C16_Witness ==
    /\ batch_pc = "returned"
    /\ Len(names) = 4
    /\ names[1] = "A"
    /\ names[2] = "B"
    /\ batch_results[1] = ProductNotFound("A")
    /\ batch_results[2].type = "WarehouseProduct"
    /\ batch_results[4].type = "HTTPStatusError"
    /\ Len(not_found) >= 2
    /\ Len(results) >= 1

\* The product lists the serial number among its things.
InThings(p, serial_number) ==
    /\ p.things # Null
    /\ \E j \in 1..Len(p.things[1]) : p.things[1][j] = serial_number

\* Some product search_products returned lists the row's serial number.
Matched(row) ==
    \E j \in DOMAIN warehouse_products.products :
        InThings(warehouse_products.products[j], row.serial_number)

Unmatched(row) == ~Matched(row)

\* C17: matcher partition. prepare_products puts every row it is given in
\* exactly one output: the rows whose serial number no product's things
\* contain (things None or empty included) are the unmatched rows, in the
\* rows' order, and give no product; the other rows give one product each,
\* in the rows' order, with the row's name, serial number and price and the
\* id of a product that contains the serial number.
C17_MatcherPartition ==
    demand_pc \in {"creating", "returned"} =>
        LET matched == SelectSeq(valid_rows, Matched)
        IN  /\ unmatched_rows = SelectSeq(valid_rows, Unmatched)
            /\ Len(prepared_products) = Len(matched)
            /\ Len(prepared_products) + Len(unmatched_rows) = Len(valid_rows)
            /\ \A j \in DOMAIN prepared_products :
                  /\ prepared_products[j].name = matched[j].product_name
                  /\ prepared_products[j].things = Some(<<matched[j].serial_number>>)
                  /\ prepared_products[j].purchase_price = matched[j].purchase_price
                  /\ \E h \in DOMAIN warehouse_products.products :
                        /\ warehouse_products.products[h].id = prepared_products[j].id
                        /\ InThings(warehouse_products.products[h], matched[j].serial_number)

\* The catalog has a product with things ["SN1"] and one with things None;
\* a row with SN2 is unmatched, between two rows that were matched.
C17_Witness ==
    /\ demand_pc = "creating"
    /\ Len(valid_rows) = 3
    /\ valid_rows[2].serial_number = "SN2"
    /\ unmatched_rows = <<valid_rows[2]>>
    /\ Len(prepared_products) = 2
    /\ \E j \in DOMAIN warehouse_products.products :
          warehouse_products.products[j].things = Some(<<"SN1">>)
    /\ \E j \in DOMAIN warehouse_products.products :
          warehouse_products.products[j].things = Null

\* How many entries of rows are the row.
RECURSIVE Count(_, _, _)
Count(rows, row, n) ==
    IF n = 0 THEN 0
    ELSE (IF rows[n] = row THEN 1 ELSE 0) + Count(rows, row, n - 1)

\* C18: disjoint pipeline partitions. In the CreateDemandResult,
\* processed_rows holds only rows matched to a catalog product, and every
\* input row is in exactly one of processed_rows, not_found_rows,
\* unmatched_rows and invalid_rows, once.
C18_DisjointPartitions ==
    demand_result # <<>> =>
        LET res == demand_result[1]
        IN  /\ \A j \in DOMAIN res.processed_rows : Matched(res.processed_rows[j])
            /\ \A k \in DOMAIN csv_rows :
                  Count(res.processed_rows, csv_rows[k], Len(res.processed_rows))
                    + Count(res.not_found_rows, csv_rows[k], Len(res.not_found_rows))
                    + Count(res.unmatched_rows, csv_rows[k], Len(res.unmatched_rows))
                    + Count(res.invalid_rows, csv_rows[k], Len(res.invalid_rows)) = 1

\* C19: bounded browser retry. One top-level call of search makes at most
\* two attempts, whatever the browser reports.
C19_BoundedRetry == attempts <= 2

\* C20: scoped page. Between searches every page that was opened has been
\* closed, and within a search at most the one page in use is open.
C20_ScopedPage ==
    /\ search_pc = "page" => opened = closed + 1
    /\ search_pc # "page" => opened = closed

\* A search lost its transport with a page open, retried on a new page and
\* returned a product: two pages opened, two closed.
C20_Witness ==
    /\ search_pc = "idle"
    /\ attempts = 2
    /\ outcome = "CompetitorsProduct"
    /\ opened = 2
    /\ closed = 2

\* C21: typed failure without retry. A search that fails for another reason
\* than a closed transport raises CompetitorsSearchException and nothing
\* else, in the attempt in which the failure happened: no search ends with
\* another exception type, and the step that ends a search starts no
\* further attempt.
C21_TypedFailure ==
    /\ [](outcome \in {None, "CompetitorsProduct", "CompetitorsSearchException"})
    /\ [][(search_pc # "idle" /\ search_pc' = "idle") => attempts' = attempts]_vars

\* _ensure_browser returns normally in this step: with a browser set it
\* returns at once, without one it returns when the launch succeeded.
EnsureReturns ==
    /\ search_pc = "ensure"
    /\ search_pc' # "ensure"
    /\ (browser # None \/ search_pc' = "new_page")

\* C27: _ensure_browser establishes a usable session. Whenever it returns
\* normally the browser and the context are set, and on a session that has
\* both it changes no handle.
C27_EnsureReady ==
    [][EnsureReturns =>
          /\ browser' # None
          /\ context' # None
          /\ (browser # None /\ context # None) => UNCHANGED <<playwright, browser, context>>]_vars

\* _cleanup ran in this step: before the retry of a search whose transport
\* closed, or after a failed launch.
CleanedUp ==
    \/ search_pc # "idle" /\ tried' = tried + 1
    \/ search_pc = "ensure" /\ browser = None /\ search_pc' = "idle"

\* C30: teardown leaves the session uninitialized. Whenever _cleanup has
\* returned, the context, browser and playwright handles are all None, so
\* the retry after a closed transport starts without a browser.
C30_CleanupNulls ==
    [][CleanedUp => (context' = None /\ browser' = None /\ playwright' = None)]_vars

\* Call c took a step.
Stepped(c) == calls'[c] # calls[c]

\* C24: limiter state is only changed under its lock. Every step that
\* changes remaining_requests, limit, time_interval or reset_time is a step
\* of the call that holds RateLimiter.lock.
C24_WritesUnderLock ==
    [][rate_limiter' # rate_limiter =>
          \E c \in DOMAIN calls : Stepped(c) /\ lock.holder = c]_vars

\* The search of the k-th name was started by gather and has not finished.
InFlight(k) == batch_pc = "gather" /\ k \in Batch /\ batch_results[k] = Pending

\* C25: batch group ordering. Names are searched in consecutive groups of
\* at most three: at most three searches are in flight, a search of a group
\* is in flight only when every search of the earlier groups has finished,
\* no search of a later group has finished or started, and the next group
\* starts only from the acquire that follows a group.
C25_GroupOrdering ==
    /\ [](/\ Cardinality({k \in DOMAIN names : InFlight(k)}) <= batch_size
          /\ batch_i % batch_size = 0
          /\ \A k \in DOMAIN names :
                /\ InFlight(k) => \A j \in 1..batch_i : batch_results[j] # Pending
                /\ InFlight(k) => (k > batch_i /\ k <= batch_i + batch_size)
                /\ batch_results[k] # Pending => k <= batch_i + batch_size)
    /\ [][batch_i' # batch_i =>
            /\ batch_pc = "acquire"
            /\ batch_i' = batch_i + batch_size
            /\ \A j \in 1..batch_i' : batch_results[j] # Pending]_vars

\* The second group is in flight: the three searches of the first group
\* have finished, one of them with an exception, and acquire was awaited.
C25_Witness ==
    /\ Len(names) = 4
    /\ batch_i = batch_size
    /\ InFlight(4)
    /\ IsException(batch_results[2])
    /\ ~IsException(batch_results[3])

\* The position in the catalog of the first product that lists the serial
\* number.
FirstInCatalog(serial_number) ==
    LET with == {j \in DOMAIN warehouse_products.products :
                    InThings(warehouse_products.products[j], serial_number)}
    IN  CHOOSE j \in with : \A h \in with : j <= h

\* C26: matcher synthesis and frame. The product made for a matched row has
\* the id of the first catalog product, in catalog order, whose things
\* contain the row's serial number, the row's name, the row's serial number
\* as its only thing and the row's price; the rows are still the valid rows
\* of the file and the catalog products are still products the catalog
\* listed.
C26_MatcherSynthesis ==
    demand_pc \in {"creating", "returned"} =>
        LET matched == SelectSeq(valid_rows, Matched)
        IN  /\ Len(prepared_products) = Len(matched)
            /\ \A j \in DOMAIN prepared_products :
                  prepared_products[j] =
                      WarehouseProduct(
                          warehouse_products.products[FirstInCatalog(matched[j].serial_number)].id,
                          matched[j].product_name,
                          Some(<<matched[j].serial_number>>),
                          matched[j].purchase_price)
            /\ valid_rows = Filter(csv_rows, Len(csv_rows), TRUE)
            /\ \A j \in DOMAIN warehouse_products.products :
                  \E name \in Names : warehouse_products.products[j] \in Hits(name)

\* The catalog lists two products with the serial number SN1, "A" before
\* "B"; the row named "B" got the id of the first.
C26_Witness ==
    /\ demand_pc = "creating"
    /\ Len(warehouse_products.products) >= 2
    /\ warehouse_products.products[1] = WarehouseProduct("id-A", "A", Some(<<"SN1">>), Null)
    /\ warehouse_products.products[2] = WarehouseProduct("id-B", "B", Some(<<"SN1">>), Null)
    /\ \E j \in DOMAIN prepared_products :
          prepared_products[j] = WarehouseProduct("id-A", "B", Some(<<"SN1">>), Some(15000))

\* The i-th submission is settled: its owner finds a COMPLETED or FAILED
\* record under its task id, or has read one since the submission.
Settled(i) ==
    \/ runs[i].seen
    \/ StatusTask(tasks, TaskId(runs[i].group), runs[i].owner).status \in Terminal

\* C22: every submitted pipeline reaches a terminal record. When every run
\* keeps taking its steps, every submitted search is eventually settled.
C22_ReachesTerminal ==
    \A i \in 1..MaxRuns : (i \in DOMAIN runs) ~> (i \in DOMAIN runs /\ Settled(i))

\* This step is a status poll: no run moved.
Polled ==
    /\ Len(runs') = Len(runs)
    /\ \A i \in DOMAIN runs :
          /\ runs'[i].pc = runs[i].pc
          /\ runs'[i].stock = runs[i].stock
          /\ runs'[i].result = runs[i].result

\* The i-th submission is the only one of its task id.
Sole(i) ==
    \A j \in DOMAIN runs : j # i => runs[j].group # runs[i].group

\* The poll of this step was made by the owner of the i-th submission for
\* its task id.
PolledFor(i) ==
    /\ Polled
    /\ resp' # <<>>
    /\ resp'[1].owner = runs[i].owner
    /\ resp'[1].asked = TaskId(runs[i].group)

\* C23: no lost terminal state under interleaving. For the only submission
\* of a task id, a poll by its owner returns running and leaves the
\* registry alone until the pipeline has written its terminal state; the
\* first poll after that returns completed when the run returned and failed
\* when it raised, and the polls after that one return not_found.
C23_NoLostTerminal ==
    [][\A i \in DOMAIN runs :
          (Sole(i) /\ PolledFor(i)) =>
              IF runs[i].seen
              THEN resp'[1].status = NOT_FOUND
              ELSE IF runs[i].pc = "returned"
                   THEN resp'[1].status = COMPLETED /\ runs'[i].seen
                   ELSE IF runs[i].pc = "raised"
                        THEN resp'[1].status = FAILED /\ runs'[i].seen
                        ELSE resp'[1].status = RUNNING /\ tasks' = tasks]_vars

\* The registry holds under task_id what store holds, for every id but gone.
SameBut(after, store, gone) ==
    /\ DOMAIN after = (DOMAIN store) \ gone
    /\ \A k \in DOMAIN after : after[k] = store[k]

\* C28: reads that do not evict change nothing. A status poll that returns
\* not_found (no entry, or an entry of another owner) or running leaves the
\* registry as it is; a poll that returns a terminal status removes the
\* entry it returned and no other; remove_task by an owner who does not
\* own the entry leaves the registry as it is.
C28_ReadsChangeNothing ==
    /\ [][(Polled /\ resp' # <<>>) =>
            IF resp'[1].status \in Terminal
            THEN /\ resp'[1].asked \in DOMAIN tasks
                 /\ tasks[resp'[1].asked].owner = resp'[1].owner
                 /\ tasks[resp'[1].asked].status = resp'[1].status
                 /\ SameBut(tasks', tasks, {resp'[1].asked})
            ELSE tasks' = tasks]_vars
    /\ [](\A o \in Owners, t \in PollIds :
            (t \notin DOMAIN tasks \/ tasks[t].owner # o) =>
                /\ RemoveTask(tasks, t, o) = tasks
                /\ StatusStore(tasks, t, o) = tasks)

\* An owner polled the id of a RUNNING entry of another owner and got
\* not_found, the entry is still there, and an entry of a second id is
\* stored too.
C28_Witness ==
    /\ resp # <<>>
    /\ resp[1].status = NOT_FOUND
    /\ resp[1].asked \in DOMAIN tasks
    /\ tasks[resp[1].asked].owner # resp[1].owner
    /\ tasks[resp[1].asked].status = RUNNING
    /\ Cardinality(DOMAIN tasks) = 2

\* This step was taken by owner o: a submission, a step of one of o's runs,
\* or a status poll by o.
StepOf(o) ==
    \/ Polled /\ resp' # <<>> /\ resp'[1].owner = o
    \/ \E j \in DOMAIN runs' :
          /\ runs'[j].owner = o
          /\ \/ j \notin DOMAIN runs
             \/ runs'[j].pc # runs[j].pc
             \/ runs'[j].result # runs[j].result

\* C29: cross-owner non-interference. No step of another owner changes
\* what get_task_status returns to an owner for any task id.
C29_NonInterference ==
    [][\A o \in Owners, other \in Owners :
          (other # o /\ StepOf(other)) =>
              \A t \in PollIds : StatusTask(tasks', t, o) = StatusTask(tasks, t, o)]_vars

====
